---- MODULE Spec2Model ----
(***************************************************************************)
(* Model of tapmon's daemon (cmd/daemon.go): the main goroutine that       *)
(* checks the configuration, connects to every device and spawns one       *)
(* CollectEnergyUsage goroutine per device plus one RemoteWrite goroutine; *)
(* the unbuffered metrics channel between them; the stop channel; and the  *)
(* sync.WaitGroup the main goroutine waits on.                             *)
(*                                                                         *)
(* The device client (tapo), the remote-write client (Store) and the       *)
(* logger are outside the file.  Their results are inputs of the actions:  *)
(* the response of GetEnergyUsage, the result of proto.Marshal and Store,  *)
(* and what a Fatal log call does after logging.  logrus then calls the    *)
(* logger's exit function: os.Exit(1) unless the program replaced it, and  *)
(* then the call returns to the statement that follows it.  The package    *)
(* main that sets the process up is not part of the file, so both are      *)
(* covered: exitFunc is fixed for a run and chosen in Init.                *)
(***************************************************************************)
EXTENDS Integers, Sequences, FiniteSets, TLC

\* ---- bounds ------------------------------------------------------------
NumDevices == 2        \* at most this many devices in the configuration
MaxPolls == 2          \* poll ticks over all pollers
MaxRecoverable == 1    \* Store calls that return a RecoverableError

\* ---- inputs ------------------------------------------------------------
DeviceIds == 1 .. NumDevices

\* Device.Ip of the k-th entry of conf.Devices (distinct addresses)
Ip(k) == 100 + k

MetricName == "current_power"

Watts == {10}

\* what GetEnergyUsage hands back: err, r["error_code"], and whether
\* r["result"]["current_power"] is there as a float64 (r may be nil)
Responses ==
    { r \in [err : BOOLEAN, error_code : {0, 1}, hasResult : BOOLEAN,
             current_power : Watts] :
        /\ ((~r.err /\ r.error_code = 0) => r.hasResult)
        /\ (~r.hasResult => r.current_power = 10) }

PollOk(r) == ~r.err /\ r.error_code = 0

PollFailed(r) == r.err \/ r.error_code # 0

\* results of c.Store: nil, a remote.RecoverableError, any other error
StoreOutcomes == {"ok", "recoverable", "fatal"}

\* the logger's exit function: ends the process, or (replaced) returns
ExitFuncs == {"exit", "return"}

NoSample == [ip |-> 0, name |-> "", timestamp |-> 0, value |-> 0]

VARIABLES
    process,       \* "running", "exit0", "exit1", "panic"
    exitFunc,      \* what a Fatal log call does after logging
    nDevices,      \* len(conf.Devices)
    mainPc,        \* position of RunE
    cs,            \* addresses of the clients built by the connect loop
    wg,            \* the WaitGroup counter
    stop,          \* the stop channel: "open" or "closed"
    pollerPc,      \* position of each CollectEnergyUsage goroutine
    pollerClient,  \* the c argument of each CollectEnergyUsage (its d.Ip)
    pending,       \* the TimeSeries a poller is blocked sending on metrics
    aggPc,         \* position of the RemoteWrite goroutine
    tss,           \* RemoteWrite's batch
    now,           \* clock: advances on every poll tick
    sends,         \* history: every Store call, its batch and its result
    closes,        \* history: number of close(stop) calls executed
    received,      \* history: every TimeSeries RemoteWrite received
    tickMark,      \* history: Len(received) at the last flush tick
    dones,         \* history: wg.Done() calls per task (0 = RemoteWrite)
    fatal,         \* history: the Fatal log call made, or "none"
    lastTick,      \* history: how the last flush tick ended, or "none"
    failedPolls,   \* history: the times of the polls that failed
    produced       \* history: every TimeSeries a poller set out to send

vars == <<process, exitFunc, nDevices, mainPc, cs, wg, stop, pollerPc,
          pollerClient, pending, aggPc, tss, now, sends, closes, received,
          tickMark, dones, fatal, lastTick, failedPolls, produced>>

mainVars == <<exitFunc, nDevices, mainPc, cs>>
pollerVars == <<pollerPc, pollerClient, pending, now, failedPolls,
                produced>>
aggVars == <<aggPc, tss, sends, received, tickMark, fatal, lastTick>>

Init ==
    /\ process = "running"
    /\ exitFunc \in ExitFuncs
    /\ nDevices \in 0 .. NumDevices
    /\ mainPc = "config"
    /\ cs = <<>>
    /\ wg = 0
    /\ stop = "open"
    /\ pollerPc = [k \in DeviceIds |-> "unspawned"]
    /\ pollerClient = [k \in DeviceIds |-> 0]
    /\ pending = [k \in DeviceIds |-> NoSample]
    /\ aggPc = "unspawned"
    /\ tss = <<>>
    /\ now = 0
    /\ sends = <<>>
    /\ closes = 0
    /\ received = <<>>
    /\ tickMark = 0
    /\ dones = [k \in 0 .. NumDevices |-> 0]
    /\ fatal = "none"
    /\ lastTick = "none"
    /\ failedPolls = {}
    /\ produced = {}

\* ---- primitives --------------------------------------------------------

\* close(stop): closing a closed channel panics
CloseStop ==
    /\ closes' = closes + 1
    /\ IF stop = "closed"
       THEN process' = "panic" /\ stop' = stop
       ELSE process' = process /\ stop' = "closed"

\* wg.Done() by task k: a negative counter panics
Done(k) ==
    /\ dones' = [dones EXCEPT ![k] = @ + 1]
    /\ IF wg = 0
       THEN process' = "panic" /\ wg' = wg
       ELSE process' = process /\ wg' = wg - 1

\* ---- RunE --------------------------------------------------------------

\* if len(conf.Devices) == 0 { cobra.CheckErr(...) }
MainCheckConfig ==
    /\ process = "running" /\ mainPc = "config"
    /\ IF nDevices = 0
       THEN process' = "exit1" /\ mainPc' = mainPc
       ELSE process' = process /\ mainPc' = "connect"
    /\ UNCHANGED <<exitFunc, nDevices, cs, wg, stop, closes, dones>>
    /\ UNCHANGED <<pollerVars, aggVars>>

\* a connect loop that gives up on the first device it cannot reach and
\* goes on with the clients it has
MainConnectLenient(ok) ==
    /\ process = "running" /\ mainPc = "connect"
    /\ Len(cs) < nDevices
    /\ IF ok
       THEN /\ cs' = Append(cs, Ip(Len(cs) + 1))
            /\ mainPc' = IF Len(cs) + 1 = nDevices THEN "spawn" ELSE mainPc
       ELSE /\ cs' = cs
            /\ mainPc' = IF cs = <<>> THEN "spawnRW" ELSE "spawn"
    /\ UNCHANGED <<process, exitFunc, nDevices, wg, stop, closes, dones>>
    /\ UNCHANGED <<pollerVars, aggVars>>

\* one iteration of the connect loop: tapo.NewTapo for the next device
MainConnect(ok) ==
    /\ process = "running" /\ mainPc = "connect"
    /\ Len(cs) < nDevices
    /\ IF ok
       THEN /\ cs' = Append(cs, Ip(Len(cs) + 1))
            /\ mainPc' = IF Len(cs) + 1 = nDevices THEN "spawn" ELSE mainPc
            /\ process' = process
       ELSE /\ process' = "exit1"
            /\ UNCHANGED <<cs, mainPc>>
    /\ UNCHANGED <<exitFunc, nDevices, wg, stop, closes, dones>>
    /\ UNCHANGED <<pollerVars, aggVars>>

Spawned == Cardinality({k \in DeviceIds : pollerPc[k] # "unspawned"})

\* every goroutine handed the client the connect loop built last
SpawnArgLast(k) == cs[Len(cs)]

\* the client handed to the k-th CollectEnergyUsage goroutine
SpawnArg(k) == cs[k]

\* one iteration of the spawn loop: wg.Add(1); go CollectEnergyUsage(...)
MainSpawn ==
    /\ process = "running" /\ mainPc = "spawn"
    /\ Spawned < Len(cs)
    /\ LET k == Spawned + 1 IN
        /\ wg' = wg + 1
        /\ pollerPc' = [pollerPc EXCEPT ![k] = "select"]
        /\ pollerClient' = [pollerClient EXCEPT ![k] = SpawnArg(k)]
        /\ mainPc' = IF k = Len(cs) THEN "spawnRW" ELSE mainPc
    /\ UNCHANGED <<process, exitFunc, nDevices, cs, stop, pending, now,
                   closes, dones, failedPolls, produced>>
    /\ UNCHANGED aggVars

\* wg.Add(1); go RemoteWrite(...)
MainSpawnRemoteWrite ==
    /\ process = "running" /\ mainPc = "spawnRW"
    /\ wg' = wg + 1
    /\ aggPc' = "parse"
    /\ mainPc' = "wait"
    /\ UNCHANGED <<process, exitFunc, nDevices, cs, stop, closes, dones>>
    /\ UNCHANGED <<pollerVars, tss, sends, received, tickMark, fatal,
                   lastTick>>

\* a wait that returns while one task is still registered
MainWaitEarly ==
    /\ process = "running" /\ mainPc = "wait"
    /\ wg <= 1
    /\ mainPc' = "done"
    /\ process' = "exit0"
    /\ UNCHANGED <<exitFunc, nDevices, cs, wg, stop, closes, dones>>
    /\ UNCHANGED <<pollerVars, aggVars>>

\* wg.Wait() returns; RunE returns nil and the process ends
MainWait ==
    /\ process = "running" /\ mainPc = "wait"
    /\ wg = 0
    /\ mainPc' = "done"
    /\ process' = "exit0"
    /\ UNCHANGED <<exitFunc, nDevices, cs, wg, stop, closes, dones>>
    /\ UNCHANGED <<pollerVars, aggVars>>

\* ---- CollectEnergyUsage ------------------------------------------------

\* the TimeSeries built from a reading: the labels ip and __name__, and one
\* sample with the current time and the reading
TimeSeries(ip, t, v) ==
    [ip |-> ip, name |-> MetricName, timestamp |-> t, value |-> v]

\* r["result"].(map[string]interface{})["current_power"].(float64) panics
\* when r is nil or carries no such value
AssertionPanics(r) == ~r.hasResult

\* case _, ok = <-stop: ticker.Stop(); wg.Done(); return
PollerStop(k) ==
    /\ process = "running" /\ pollerPc[k] = "select"
    /\ stop = "closed"
    /\ Done(k)
    /\ pollerPc' = [pollerPc EXCEPT ![k] = "done"]
    /\ UNCHANGED <<stop, closes, pollerClient, pending, now, failedPolls,
                   produced>>
    /\ UNCHANGED <<mainVars, aggVars>>

\* a tick that is served while the send of the last one is still waiting
PollerTickOverlapping(k, r) ==
    /\ process = "running" /\ pollerPc[k] \in {"select", "send"}
    /\ now < MaxPolls
    /\ now' = now + 1
    /\ failedPolls' = IF PollFailed(r) THEN failedPolls \cup {now'}
                                       ELSE failedPolls
    /\ IF AssertionPanics(r)
       THEN /\ process' = "panic"
            /\ UNCHANGED <<pollerPc, pending, produced>>
       ELSE /\ process' = process
            /\ pending' = [pending EXCEPT
                   ![k] = TimeSeries(pollerClient[k], now', r.current_power)]
            /\ produced' = produced \cup {pending'[k]}
            /\ pollerPc' = [pollerPc EXCEPT ![k] = "send"]
    /\ UNCHANGED <<wg, stop, closes, dones, pollerClient>>
    /\ UNCHANGED <<mainVars, aggVars>>

\* case <-ticker.C: GetEnergyUsage answers r; both warnings only log; the
\* value is read and the goroutine blocks sending on metrics
PollerTick(k, r) ==
    /\ process = "running" /\ pollerPc[k] = "select"
    /\ now < MaxPolls
    /\ now' = now + 1
    /\ failedPolls' = IF PollFailed(r) THEN failedPolls \cup {now'}
                                       ELSE failedPolls
    /\ IF AssertionPanics(r)
       THEN /\ process' = "panic"
            /\ UNCHANGED <<pollerPc, pending, produced>>
       ELSE /\ process' = process
            /\ pending' = [pending EXCEPT
                   ![k] = TimeSeries(pollerClient[k], now', r.current_power)]
            /\ produced' = produced \cup {pending'[k]}
            /\ pollerPc' = [pollerPc EXCEPT ![k] = "send"]
    /\ UNCHANGED <<wg, stop, closes, dones, pollerClient>>
    /\ UNCHANGED <<mainVars, aggVars>>

\* ---- RemoteWrite -------------------------------------------------------

\* log.Fatal...; close(stop): the log call ends the process or returns
FatalThenClose(what) ==
    /\ fatal' = what
    /\ IF exitFunc = "exit"
       THEN process' = "exit1" /\ UNCHANGED <<stop, closes>>
       ELSE CloseStop

\* url.Parse(conf.Prometheus.Endpoint); on error Fatal, close(stop), return
AggParse(ok) ==
    /\ process = "running" /\ aggPc = "parse"
    /\ IF ok
       THEN aggPc' = "client" /\ UNCHANGED <<process, stop, closes, fatal>>
       ELSE /\ FatalThenClose("endpoint")
            /\ aggPc' = IF exitFunc = "exit" THEN aggPc ELSE "returned"
    /\ UNCHANGED <<wg, dones, tss, sends, received, tickMark, lastTick>>
    /\ UNCHANGED <<mainVars, pollerVars>>

\* remote.NewWriteClient; on error Fatal, close(stop), return; otherwise
\* sleep a second, start the ticker and enter the loop
AggNewClient(ok) ==
    /\ process = "running" /\ aggPc = "client"
    /\ IF ok
       THEN aggPc' = "select" /\ UNCHANGED <<process, stop, closes, fatal>>
       ELSE /\ FatalThenClose("client")
            /\ aggPc' = IF exitFunc = "exit" THEN aggPc ELSE "returned"
    /\ UNCHANGED <<wg, dones, tss, sends, received, tickMark, lastTick>>
    /\ UNCHANGED <<mainVars, pollerVars>>

\* a stop case that hands what is left of the batch to Store first
AggStopFlushing ==
    /\ process = "running" /\ aggPc = "select"
    /\ stop = "closed"
    /\ Done(0)
    /\ aggPc' = "done"
    /\ sends' = IF tss = <<>> THEN sends
                ELSE Append(sends, [batch |-> tss, outcome |-> "ok"])
    /\ tss' = <<>>
    /\ UNCHANGED <<stop, closes, received, tickMark, fatal, lastTick>>
    /\ UNCHANGED <<mainVars, pollerVars>>

\* case _, ok = <-stop: ticker.Stop(); wg.Done(); return
AggStop ==
    /\ process = "running" /\ aggPc = "select"
    /\ stop = "closed"
    /\ Done(0)
    /\ aggPc' = "done"
    /\ UNCHANGED <<stop, closes, tss, sends, received, tickMark, fatal,
                   lastTick>>
    /\ UNCHANGED <<mainVars, pollerVars>>

\* a receive that puts the TimeSeries at the front of the batch
PrependSeries(b, ts) == <<ts>> \o b

\* tss = append(tss, ts)
AppendSeries(b, ts) == Append(b, ts)

\* case ts = <-metrics: the rendezvous with poller k's send; append
AggReceive(k) ==
    /\ process = "running" /\ aggPc = "select"
    /\ pollerPc[k] = "send"
    /\ tss' = AppendSeries(tss, pending[k])
    /\ received' = Append(received, pending[k])
    /\ pending' = [pending EXCEPT ![k] = NoSample]
    /\ pollerPc' = [pollerPc EXCEPT ![k] = "select"]
    /\ UNCHANGED <<process, wg, stop, closes, dones, aggPc, sends, tickMark,
                   fatal, lastTick, pollerClient, now, failedPolls,
                   produced>>
    /\ UNCHANGED mainVars

\* a flush that has no check for the empty batch
BatchNeverEmpty(b) == FALSE

\* if len(tss) == 0 { continue }
BatchIsEmpty(b) == Len(b) = 0

\* a flush that clears the batch whatever Store returned
BatchAfterStoreCleared(b, out) == <<>>

\* a flush that never clears the batch
BatchAfterStoreKept(b, out) == b

\* the batch RemoteWrite holds after Store returned out
BatchAfterStore(b, out) == IF out = "ok" THEN <<>> ELSE b

\* a Store error that is no RecoverableError
NeverRecoverable(out) == FALSE

\* if _, ok := err.(remote.RecoverableError); ok
IsRecoverable(out) == out = "recoverable"

Recoverables ==
    Cardinality({i \in 1 .. Len(sends) : sends[i].outcome = "recoverable"})

\* case <-ticker.C: nothing for an empty batch; otherwise marshal (on
\* error Fatal, close(stop), continue), then Store: a recoverable error
\* continues, any other error is Fatal, close(stop), continue, and success
\* replaces the batch by an empty one
AggFlushTick(marshalOk, out) ==
    /\ process = "running" /\ aggPc = "select"
    /\ tickMark' = Len(received)
    /\ IF BatchIsEmpty(tss)
       THEN /\ lastTick' = "empty"
            /\ UNCHANGED <<process, stop, closes, tss, sends, fatal>>
       ELSE IF ~marshalOk
       THEN /\ lastTick' = "marshal"
            /\ FatalThenClose("marshal")
            /\ UNCHANGED <<tss, sends>>
       ELSE /\ out = "recoverable" => Recoverables < MaxRecoverable
            /\ lastTick' = out
            /\ sends' = Append(sends, [batch |-> tss, outcome |-> out])
            /\ tss' = BatchAfterStore(tss, out)
            /\ IF out # "ok" /\ ~IsRecoverable(out)
               THEN FatalThenClose("store")
               ELSE UNCHANGED <<process, stop, closes, fatal>>
    /\ UNCHANGED <<wg, dones, aggPc, received>>
    /\ UNCHANGED <<mainVars, pollerVars>>

\* ---- the program -------------------------------------------------------

Main ==
    \/ MainCheckConfig
    \/ \E ok \in BOOLEAN : MainConnect(ok)
    \/ MainSpawn
    \/ MainSpawnRemoteWrite
    \/ MainWait

Poller(k) ==
    \/ PollerStop(k)
    \/ \E r \in Responses : PollerTick(k, r)

FlushTick ==
    \E marshalOk \in BOOLEAN, out \in StoreOutcomes :
        AggFlushTick(marshalOk, out)

Aggregator ==
    \/ \E ok \in BOOLEAN : AggParse(ok)
    \/ \E ok \in BOOLEAN : AggNewClient(ok)
    \/ AggStop
    \/ \E k \in DeviceIds : AggReceive(k)
    \/ FlushTick

Next ==
    \/ Main
    \/ \E k \in DeviceIds : Poller(k)
    \/ Aggregator

Spec == Init /\ [][Next]_vars

\* Scheduling: a runnable goroutine runs, a ticker ticks, and a select
\* that is ready infinitely often on a case takes it.
FairSpec ==
    /\ Spec
    /\ WF_vars(Main)
    /\ \A k \in DeviceIds :
        /\ SF_vars(PollerStop(k))
        /\ WF_vars(\E r \in Responses : PollerTick(k, r))
        /\ SF_vars(AggReceive(k))
    /\ WF_vars(\E ok \in BOOLEAN : AggParse(ok))
    /\ WF_vars(\E ok \in BOOLEAN : AggNewClient(ok))
    /\ SF_vars(AggStop)
    /\ WF_vars(FlushTick)

TypeOK ==
    /\ process \in {"running", "exit0", "exit1", "panic"}
    /\ stop \in {"open", "closed"}
    /\ wg \in 0 .. NumDevices + 1
    /\ now \in 0 .. MaxPolls

\* ---- vocabulary of the properties --------------------------------------

MidTick(k) == pollerPc[k] = "send"

LastSend == sends[Len(sends)]

SamplesOf(b) == {b[i] : i \in 1 .. Len(b)}

IsPrefix(a, b) == Len(a) <= Len(b) /\ SubSeq(b, 1, Len(a)) = a

\* a step in which Store was called and returned out
StoreStep(out) ==
    /\ Len(sends') = Len(sends) + 1
    /\ sends'[Len(sends')].outcome = out

RECURSIVE DeliveredCount(_)
\* the number of TimeSeries in the batches whose Store call succeeded
DeliveredCount(s) ==
    IF s = <<>> THEN 0
    ELSE (IF Head(s).outcome = "ok" THEN Len(Head(s).batch) ELSE 0)
         + DeliveredCount(Tail(s))

\* ---- C1 ----------------------------------------------------------------

C2_FatalFlushShutsDown ==
    (fatal \in {"marshal", "store"})
        ~> /\ stop = "closed"
           /\ dones[0] = 1
           /\ \A k \in 1 .. nDevices : dones[k] = 1
           /\ mainPc = "done"

\* ---- C3 ----------------------------------------------------------------

FailedPollStep == now' = now + 1 /\ now' \in failedPolls'

\* C6: a poll that fails puts no TimeSeries on the way to metrics, leaves
\* the poller at its select, and neither ends the process nor closes stop.
C6_FailedPollSkipsTick ==
    [][FailedPollStep =>
        /\ pending' = pending /\ pollerPc' = pollerPc
        /\ process' = "running"
        /\ stop' = stop /\ closes' = closes]_vars

\* ---- C7 ----------------------------------------------------------------

\* no Fatal log call, stop open, and every Store call so far succeeded
Healthy ==
    /\ fatal = "none" /\ stop = "open"
    /\ \A i \in 1 .. Len(sends) : sends[i].outcome = "ok"

Produced(t) == \E k \in DeviceIds : pending[k].timestamp = t

Received(t) == \E i \in 1 .. Len(received) : received[i].timestamp = t

Transmitted(t) ==
    \E i \in 1 .. Len(sends) :
        /\ sends[i].outcome = "ok"
        /\ \E j \in 1 .. Len(sends[i].batch) : sends[i].batch[j].timestamp = t

\* C7: every TimeSeries a poller produces is eventually received by
\* RemoteWrite and in the batch of a Store call that succeeded, unless the
\* pipeline stops being healthy.
C7_NoSampleLostWhileHealthy ==
    \A t \in 1 .. MaxPolls :
        Produced(t) ~> ((Received(t) /\ Transmitted(t)) \/ ~Healthy)

\* ---- C8 ----------------------------------------------------------------

\* C8: a flush tick that finds the batch empty makes no Store call, makes
\* no Fatal log call, leaves stop alone, and leaves RemoteWrite in its loop
\* with the batch still empty.
C8_EmptyFlushIsNoOp ==
    [][(FlushTick /\ Len(tss) = 0) =>
        /\ lastTick' = "empty"
        /\ sends' = sends
        /\ fatal' = fatal /\ process' = "running"
        /\ stop' = stop /\ closes' = closes
        /\ aggPc' = "select"
        /\ tss' = <<>>]_vars

C8_Witness ==
    /\ lastTick = "empty"
    /\ tss = <<>>
    /\ aggPc = "select" /\ process = "running" /\ stop = "open"
    /\ received # <<>>

\* ---- C9 ----------------------------------------------------------------

\* a poll tick of poller k whose GetEnergyUsage succeeded
OkPollStep(k) ==
    /\ \E r \in Responses : PollOk(r) /\ PollerTick(k, r)
    /\ now' \notin failedPolls'

\* C9: a successful poll by the poller of the k-th configured device puts
\* exactly one TimeSeries on the way to metrics, named current_power and
\* labelled with that device's address, and touches no other poller's; and
\* no poller ever holds a TimeSeries labelled with another address.
C9_OneLabelledSamplePerPoll ==
    [][/\ \A k \in DeviceIds :
            OkPollStep(k) =>
                /\ pending[k] = NoSample
                /\ pending'[k] # NoSample
                /\ pending'[k].ip = Ip(k)
                /\ pending'[k].name = "current_power"
                /\ pending'[k].timestamp = now'
                /\ pollerPc'[k] = "send"
                /\ \A j \in DeviceIds \ {k} : pending'[j] = pending[j]
                /\ tss' = tss
       /\ \A k \in DeviceIds :
            pending'[k] # NoSample => pending'[k].ip = Ip(k)]_vars

C9_Witness ==
    \E k \in DeviceIds :
        /\ k > 1
        /\ pollerPc[k] = "send"
        /\ pending[k].timestamp \notin failedPolls
        /\ pending[k].ip = Ip(k)
        /\ \E i \in 1 .. Len(tss) : tss[i].ip = Ip(1)

\* ---- C10 ---------------------------------------------------------------

Registered(k) ==
    IF k = 0 THEN aggPc # "unspawned" ELSE pollerPc[k] # "unspawned"

Exited(k) ==
    IF k = 0 THEN aggPc \in {"done", "returned"} ELSE pollerPc[k] = "done"

FatalStoreSeen ==
    \E i \in 1 .. Len(sends) : sends[i].outcome = "fatal"

Before(a, b) == a.ip = b.ip /\ a.timestamp < b.timestamp

\* C14: two TimeSeries of one poller are received in the order produced
\* and are in that order in every batch handed to Store; a Store call that
\* carries the later one carries the earlier one too unless an earlier
\* Store call did; and the batches of the Store calls are consecutive
\* stretches of the received sequence, in the order of the calls.
C14_OrderPreserved ==
    /\ \A i, j \in 1 .. Len(received) :
        (i < j /\ received[i].ip = received[j].ip)
            => received[i].timestamp < received[j].timestamp
    /\ \A n \in 1 .. Len(sends) :
        LET b == sends[n].batch
            d == DeliveredCount(SubSeq(sends, 1, n - 1))
        IN  /\ \A i, j \in 1 .. Len(b) :
                (i < j /\ b[i].ip = b[j].ip)
                    => b[i].timestamp < b[j].timestamp
            /\ \A i \in 1 .. Len(b) : \A m \in 1 .. Len(received) :
                Before(received[m], b[i]) =>
                    \E n2 \in 1 .. n : received[m] \in SamplesOf(sends[n2].batch)
            /\ b = SubSeq(received, d + 1, d + Len(b))

C14_Witness ==
    \E n \in 1 .. Len(sends) :
        /\ Len(sends[n].batch) = 2
        /\ Before(sends[n].batch[1], sends[n].batch[2])

\* ---- C15 ---------------------------------------------------------------

\* C15: close(stop) is only ever executed after a fatal condition: an
\* endpoint that does not parse, a failed client construction, a marshal
\* error, or a Store call that returned a non-recoverable error.  Failed
\* polls, empty flushes, successful flushes and recoverable Store errors
\* leave stop open.
C15_OnlyFatalClosesStop ==
    (closes >= 1 \/ stop = "closed") =>
        \/ fatal \in {"endpoint", "client", "marshal"}
        \/ fatal = "store" /\ FatalStoreSeen

C15_Witness ==
    /\ stop = "open" /\ closes = 0 /\ process = "running"
    /\ failedPolls # {}
    /\ lastTick = "ok"
    /\ \E i \in 1 .. Len(sends) : sends[i].outcome = "recoverable"

\* ---- C16 ---------------------------------------------------------------

\* C16: wg.Wait() has returned only when RemoteWrite and every poller have
\* returned, each after its Done call; none is at its select, blocked in a
\* send, or still to be started.
C16_WaitReturnsAfterAllExited ==
    mainPc = "done" =>
        /\ aggPc = "done" /\ dones[0] = 1
        /\ \A k \in 1 .. nDevices :
            pollerPc[k] = "done" /\ dones[k] = 1 /\ pending[k] = NoSample
        /\ wg = 0

C16_Witness ==
    /\ mainPc = "done" /\ process = "exit0"
    /\ nDevices = NumDevices
    /\ \A k \in DeviceIds : pollerPc[k] = "done"
    /\ aggPc = "done"

\* ---- C17 ---------------------------------------------------------------

\* the TimeSeries of the batch that no Store call has carried
Unsent ==
    {ts \in SamplesOf(tss) :
        \A i \in 1 .. Len(sends) : ts \notin SamplesOf(sends[i].batch)}

\* C17: RemoteWrite leaves its loop only through the stop case with stop
\* closed; that step calls Done once and makes no Store call, whatever the
\* batch holds; and once RemoteWrite has returned no Store call is made, so
\* what the batch held stays untransmitted.
C17_NoFinalFlush ==
    [][/\ (aggPc = "select" /\ aggPc' = "done") =>
            /\ stop = "closed"
            /\ dones'[0] = dones[0] + 1
            /\ sends' = sends
            /\ tss' = tss
       /\ aggPc = "done" =>
            (aggPc' = "done" /\ sends' = sends /\ Unsent' = Unsent)]_vars

C17_Witness ==
    /\ aggPc = "done" /\ dones[0] = 1
    /\ Unsent # {}

\* ---- C18 ---------------------------------------------------------------

\* the TimeSeries produced and not yet received by RemoteWrite
Waiting == produced \ SamplesOf(received)

WaitingOf(k) == {ts \in Waiting : ts.ip = Ip(k)}

\* C18: each poller has at most one TimeSeries produced and not yet
\* received, and has one exactly while it is blocked in its send (so it
\* takes no tick before RemoteWrite has received); the TimeSeries waiting
\* are never more than the pollers started.
C18_RendezvousIntake ==
    /\ \A k \in DeviceIds :
        /\ Cardinality(WaitingOf(k)) <= 1
        /\ WaitingOf(k) = IF MidTick(k) THEN {pending[k]} ELSE {}
    /\ Cardinality(Waiting) <= Spawned

C18_Witness ==
    /\ Cardinality(Waiting) = NumDevices
    /\ \A k \in DeviceIds : MidTick(k)
    /\ aggPc = "select" /\ process = "running"

\* ---- C19 ---------------------------------------------------------------

NoTaskStarted == Spawned = 0 /\ aggPc = "unspawned" /\ wg = 0

\* C19: a poller or RemoteWrite is started only when the device list is
\* not empty and a client was built for every configured device; and when
\* the process has ended in the configuration check or in the connect loop,
\* no task was ever started.
C19_NoPartialStartup ==
    /\ ~NoTaskStarted => (nDevices > 0 /\ Len(cs) = nDevices)
    /\ mainPc \in {"config", "connect"} => NoTaskStarted
    /\ nDevices = 0 => mainPc = "config"

C19_Witness ==
    /\ process = "exit1" /\ mainPc = "connect"
    /\ nDevices = NumDevices /\ Len(cs) = nDevices - 1
    /\ NoTaskStarted

====
